---- MODULE Spec2Model ----
(***************************************************************************)
(* Model of the streak tracker of src/src/main.rs: the Streak state        *)
(* machine (hit, update_count), the State store (update, add_streaks,      *)
(* remove_streaks, rename_streak, hit_streak) and the fuzzy name match     *)
(* (lev, close_match).  One action models one load-mutate-persist cycle    *)
(* of run_command; the wall clock Local::now() is the variable now, which  *)
(* the environment may set to any value, also an earlier one.              *)
(***************************************************************************)
EXTENDS Integers, Sequences, FiniteSets, TLC

\* ------------------------------------------------------------------ bounds

\* Largest current_count the model lets a hit produce (u32 in the source).
MaxCount == 2

\* Calendar days are 0..MaxDay.
MaxDay == 2

\* Longest argument list of one add / remove invocation.
MaxArgs == 2

\* Longest string of the alphabet LevAlphabet given to lev and close_match.
MaxLen == 3

\* ------------------------------------------------------------- value sets

\* Streak names, as sequences of characters: "ab" and "ac" are within the
\* close_match budget of each other.
Names == { <<"a", "b">>, <<"a", "c">> }

\* The names given on the command line where the state file is modelled: the
\* two of Names and one that ends in a comma, one edit away from both.
FileNames == Names \cup { <<"a", ",">> }

\* A DateTime<Local> is a calendar day and a time of day.
TimesOfDay == {"am", "pm"}

Time == [day : 0..MaxDay, tod : TimesOfDay]

StreakStates == {"Done", "Pending", "Expired", "New"}

\* The clock values of Spec: one reading a day.
Mornings == { t \in Time : t.tod = "am" }

ArgLists(S) == UNION { [1..k -> S] : k \in 1..MaxArgs }

OneName == <<"a", "b">>

VARIABLES
    streaks,    \* State.streaks: the map name -> Streak, as persisted
    now,        \* the value Local::now() returns
    last,       \* the last operation: its kind, the streak it hit, the
                \* status that streak had before, the value returned
    hitsToday,  \* history: successful hits of the streak stored under a name
                \* since the clock's calendar day last changed
    probe,      \* the two strings given to lev and close_match (SpecLev)
    io          \* the state file and the run of a batch hit (SpecFile)

vars == <<streaks, now, last, hitsToday, probe, io>>

\* ---------------------------------------------------------------- helpers

Max(x, y) == IF x >= y THEN x ELSE y

Min(x, y) == IF x <= y THEN x ELSE y

\* Datelike::num_days_from_ce: the calendar day of a timestamp.
num_days_from_ce(t) == t.day

\* The order of timestamps: earlier day, or same day and earlier time of day.
Earlier(t1, t2) ==
    \/ t1.day < t2.day
    \/ t1.day = t2.day /\ t1.tod = "am" /\ t2.tod = "pm"

\* Option<u32>: None is the empty sequence, Some(k) is <<k>>.
None == << >>

Some(k) == <<k>>

\* ------------------------------------------------------------ fuzzy match

RECURSIVE lev(_, _)
lev(a, b) ==
    IF b = << >> THEN Len(a)
    ELSE IF a = << >> THEN Len(b)
    ELSE IF Head(a) = Head(b) THEN lev(Tail(a), Tail(b))
    ELSE 1 + Min(Min(lev(Tail(a), b), lev(a, Tail(b))), lev(Tail(a), Tail(b)))

\* close_match without the cap of 3 edits.
close_match_uncapped(a, b) == lev(a, b) <= Min(Len(a), Len(b)) \div 2

close_match(a, b) == lev(a, b) <= Min(Min(Len(a), Len(b)) \div 2, 3)

\* ----------------------------------------------------------------- Streak

Streak_new(t) ==
    [current_count |-> 0, max_count |-> 0, last_hit |-> t, state |-> "New"]

\* update_count without the max_count line.
update_count_no_max(s, c) == [s EXCEPT !.current_count = c]

\* update_count assigning max_count instead of taking the maximum.
update_count_assign(s, c) == [s EXCEPT !.current_count = c, !.max_count = c]

\* update_count with the closure already applied: c is action(current_count).
update_count(s, c) ==
    [s EXCEPT !.current_count = c, !.max_count = Max(s.max_count, c)]

\* Streak::hit whose Done arm counts the hit like the Pending arm.
hit_done_counts(s, t) ==
    IF s.state \in {"Expired", "New"}
    THEN LET s2 == update_count([s EXCEPT !.state = "Done", !.last_hit = t], 1)
         IN  [streak |-> s2, ret |-> Some(s2.current_count)]
    ELSE LET s2 == update_count([s EXCEPT !.state = "Done", !.last_hit = t],
                                s.current_count + 1)
         IN  [streak |-> s2, ret |-> Some(s2.current_count)]

\* Streak::hit whose Pending arm restarts the chain at 1.
hit_pending_restarts(s, t) ==
    IF s.state = "Done"
    THEN [streak |-> s, ret |-> None]
    ELSE LET s2 == update_count([s EXCEPT !.state = "Done", !.last_hit = t], 1)
         IN  [streak |-> s2, ret |-> Some(s2.current_count)]

\* Streak::hit whose Expired | New arm increments like the Pending arm.
hit_expired_increments(s, t) ==
    IF s.state = "Done"
    THEN [streak |-> s, ret |-> None]
    ELSE LET s2 == update_count([s EXCEPT !.state = "Done", !.last_hit = t],
                                s.current_count + 1)
         IN  [streak |-> s2, ret |-> Some(s2.current_count)]

\* Streak::hit at clock value t: the streak afterwards and the value returned.
hit(s, t) ==
    IF s.state = "Done"
    THEN [streak |-> s, ret |-> None]
    ELSE IF s.state \in {"Expired", "New"}
    THEN LET s2 == update_count([s EXCEPT !.state = "Done", !.last_hit = t], 1)
         IN  [streak |-> s2, ret |-> Some(s2.current_count)]
    ELSE LET s2 == update_count([s EXCEPT !.state = "Done", !.last_hit = t],
                                s.current_count + 1)
         IN  [streak |-> s2, ret |-> Some(s2.current_count)]

\* ------------------------------------------------------------------ State

\* update_streak whose n > 1 arm leaves the count alone.
update_streak_keeps_count(s, t) ==
    LET days_between == num_days_from_ce(t) - num_days_from_ce(s.last_hit)
    IN  IF days_between = 0 THEN s
        ELSE IF days_between = 1 THEN [s EXCEPT !.state = "Pending"]
        ELSE IF days_between > 1 THEN [s EXCEPT !.state = "Expired"]
        ELSE update_count([s EXCEPT !.state = "Pending"], 0)

\* update_streak whose 1 arm resets the count as the fallback arm does.
update_streak_one_resets(s, t) ==
    LET days_between == num_days_from_ce(t) - num_days_from_ce(s.last_hit)
    IN  IF days_between = 0 THEN s
        ELSE IF days_between > 1
        THEN update_count([s EXCEPT !.state = "Expired"], 0)
        ELSE update_count([s EXCEPT !.state = "Pending"], 0)

\* update_streak without the 0 arm: 0 falls into the fallback arm.
update_streak_no_zero_arm(s, t) ==
    LET days_between == num_days_from_ce(t) - num_days_from_ce(s.last_hit)
    IN  IF days_between = 1 THEN [s EXCEPT !.state = "Pending"]
        ELSE IF days_between > 1
        THEN update_count([s EXCEPT !.state = "Expired"], 0)
        ELSE update_count([s EXCEPT !.state = "Pending"], 0)

\* update_streak comparing timestamps, not calendar days: a later time of the
\* same day counts as the next day.
update_streak_by_timestamp(s, t) ==
    LET days_between == num_days_from_ce(t) - num_days_from_ce(s.last_hit)
    IN  IF days_between = 0 /\ t = s.last_hit THEN s
        ELSE IF days_between = 1 \/ (days_between = 0 /\ Earlier(s.last_hit, t))
        THEN [s EXCEPT !.state = "Pending"]
        ELSE IF days_between > 1
        THEN update_count([s EXCEPT !.state = "Expired"], 0)
        ELSE update_count([s EXCEPT !.state = "Pending"], 0)

\* update_streak that also stamps last_hit when it makes a streak Pending.
update_streak_stamps(s, t) ==
    LET days_between == num_days_from_ce(t) - num_days_from_ce(s.last_hit)
    IN  IF days_between = 0 THEN s
        ELSE IF days_between = 1
        THEN [s EXCEPT !.state = "Pending", !.last_hit = t]
        ELSE IF days_between > 1
        THEN update_count([s EXCEPT !.state = "Expired"], 0)
        ELSE update_count([s EXCEPT !.state = "Pending"], 0)

\* update_streak whose fallback arm is merged into the n > 1 arm.
update_streak_negative_expires(s, t) ==
    LET days_between == num_days_from_ce(t) - num_days_from_ce(s.last_hit)
    IN  IF days_between = 0 THEN s
        ELSE IF days_between = 1 THEN [s EXCEPT !.state = "Pending"]
        ELSE update_count([s EXCEPT !.state = "Expired"], 0)

\* update_streak whose n > 1 arm takes one off the count, not all of it.
update_streak_decays(s, t) ==
    LET days_between == num_days_from_ce(t) - num_days_from_ce(s.last_hit)
    IN  IF days_between = 0 THEN s
        ELSE IF days_between = 1 THEN [s EXCEPT !.state = "Pending"]
        ELSE IF days_between > 1
        THEN update_count([s EXCEPT !.state = "Expired"],
                          Max(s.current_count - 1, 0))
        ELSE update_count([s EXCEPT !.state = "Pending"], 0)

\* update_streak that treats one day like none.
update_streak_skips_one(s, t) ==
    LET days_between == num_days_from_ce(t) - num_days_from_ce(s.last_hit)
    IN  IF days_between \in {0, 1} THEN s
        ELSE IF days_between > 1
        THEN update_count([s EXCEPT !.state = "Expired"], 0)
        ELSE update_count([s EXCEPT !.state = "Pending"], 0)

\* The body of the loop of State::update for one streak.
update_streak(s, t) ==
    LET days_between == num_days_from_ce(t) - num_days_from_ce(s.last_hit)
    IN  IF days_between = 0 THEN s
        ELSE IF days_between = 1 THEN [s EXCEPT !.state = "Pending"]
        ELSE IF days_between > 1
        THEN update_count([s EXCEPT !.state = "Expired"], 0)
        ELSE update_count([s EXCEPT !.state = "Pending"], 0)

update(m, t) == [n \in DOMAIN m |-> update_streak(m[n], t)]

\* HashMap::insert
Insert(m, k, v) == [n \in DOMAIN m \cup {k} |-> IF n = k THEN v ELSE m[n]]

\* HashMap::remove
Delete(m, k) == [n \in DOMAIN m \ {k} |-> m[n]]

RECURSIVE add_streaks(_, _, _)
add_streaks(m, names, t) ==
    IF names = << >> THEN m
    ELSE add_streaks(Insert(m, Head(names), Streak_new(t)), Tail(names), t)

\* The keys the find of hit_streak / not_found can return: HashMap iteration
\* order is unspecified, so any close match may come first.
close_keys(m, name) == { n \in DOMAIN m : close_match(n, name) }

\* remove_streaks that removes the close matches of a name it does not find.
RECURSIVE remove_streaks_corrects(_, _)
remove_streaks_corrects(m, names) ==
    IF names = << >> THEN m
    ELSE IF Head(names) \in DOMAIN m
    THEN remove_streaks_corrects(Delete(m, Head(names)), Tail(names))
    ELSE remove_streaks_corrects(
            [n \in DOMAIN m \ close_keys(m, Head(names)) |-> m[n]],
            Tail(names))

RECURSIVE remove_streaks(_, _)
remove_streaks(m, names) ==
    IF names = << >> THEN m
    ELSE remove_streaks(Delete(m, Head(names)), Tail(names))

\* The names of a remove for which State::not_found is called, in order.
RECURSIVE remove_misses(_, _)
remove_misses(m, names) ==
    IF names = << >> THEN << >>
    ELSE IF Head(names) \in DOMAIN m
    THEN remove_misses(Delete(m, Head(names)), Tail(names))
    ELSE <<Head(names)>> \o remove_misses(m, Tail(names))

\* rename_streak that inserts under the new name without removing the old.
rename_streak_copies(m, name, new_name) ==
    IF name \in DOMAIN m
    THEN Insert(m, new_name, m[name])
    ELSE m

rename_streak(m, name, new_name) ==
    IF name \in DOMAIN m
    THEN Insert(Delete(m, name), new_name, m[name])
    ELSE m

\* hit_streak that hits the close key whatever the prompt answers.
hit_streak_always_accepts(m, name, answer, t) ==
    IF name \in DOMAIN m
    THEN { [streaks |-> [m EXCEPT ![name] = hit(m[name], t).streak],
            target |-> name, pre |-> m[name].state,
            ret |-> hit(m[name], t).ret] }
    ELSE IF close_keys(m, name) # {}
    THEN { [streaks |-> [m EXCEPT ![alt] = hit(m[alt], t).streak],
            target |-> alt, pre |-> m[alt].state,
            ret |-> hit(m[alt], t).ret] : alt \in close_keys(m, name) }
    ELSE { [streaks |-> Insert(m, name, hit(Streak_new(t), t).streak),
            target |-> name, pre |-> "Absent",
            ret |-> hit(Streak_new(t), t).ret] }

\* State::hit_streak: every outcome (store afterwards, streak hit, status it
\* had, value returned) for the answer the yes/no prompt gives.
hit_streak(m, name, answer, t) ==
    IF name \in DOMAIN m
    THEN { [streaks |-> [m EXCEPT ![name] = hit(m[name], t).streak],
            target |-> name, pre |-> m[name].state,
            ret |-> hit(m[name], t).ret] }
    ELSE IF close_keys(m, name) # {} /\ answer
    THEN { [streaks |-> [m EXCEPT ![alt] = hit(m[alt], t).streak],
            target |-> alt, pre |-> m[alt].state,
            ret |-> hit(m[alt], t).ret] : alt \in close_keys(m, name) }
    ELSE { [streaks |-> Insert(m, name, hit(Streak_new(t), t).streak),
            target |-> name, pre |-> "Absent",
            ret |-> hit(Streak_new(t), t).ret] }

\* ---------------------------------------------------------- the state file

\* Text is a sequence of characters.  The characters of the names in byte
\* order, which is the order String compares by.
ByteOrder == <<",", "0", "1", "2", "3", "4", "5", "6", "7", "8", "9",
               "a", "b", "c", "d">>

Rank(c) == CHOOSE i \in DOMAIN ByteOrder : ByteOrder[i] = c

\* a < b for two strings: Ord for String.
RECURSIVE StrLess(_, _)
StrLess(a, b) ==
    IF b = << >> THEN FALSE
    ELSE IF a = << >> THEN TRUE
    ELSE IF Head(a) = Head(b) THEN StrLess(Tail(a), Tail(b))
    ELSE Rank(Head(a)) < Rank(Head(b))

\* The strings of a set in ascending order.
RECURSIVE Sorted(_)
Sorted(S) ==
    IF S = {} THEN << >>
    ELSE LET least == CHOOSE x \in S : \A y \in S \ {x} : StrLess(x, y)
         IN  <<least>> \o Sorted(S \ {least})

\* [&str]::join
RECURSIVE Join(_, _)
Join(parts, sep) ==
    IF parts = << >> THEN << >>
    ELSE IF Len(parts) = 1 THEN parts[1]
    ELSE parts[1] \o <<sep>> \o Join(Tail(parts), sep)

\* str::split: the fields between the separators, at least one.
RECURSIVE Split(_, _)
Split(text, sep) ==
    IF \A i \in DOMAIN text : text[i] # sep THEN <<text>>
    ELSE LET k == CHOOSE i \in DOMAIN text :
                    text[i] = sep /\ \A j \in 1..(i - 1) : text[j] # sep
         IN  <<SubSeq(text, 1, k - 1)>>
                \o Split(SubSeq(text, k + 1, Len(text)), sep)

\* str::lines: split at line feeds, without a last empty line.
Lines(text) ==
    LET parts == Split(text, "\n")
    IN  IF parts[Len(parts)] = << >>
        THEN SubSeq(parts, 1, Len(parts) - 1) ELSE parts

DigitChars == <<"0", "1", "2", "3", "4", "5", "6", "7", "8", "9">>

\* Display for u32: decimal digits.
RECURSIVE format_u32(_)
format_u32(n) ==
    IF n < 10 THEN <<DigitChars[n + 1]>>
    ELSE format_u32(n \div 10) \o <<DigitChars[(n % 10) + 1]>>

IsDigits(text) ==
    /\ text # << >>
    /\ \A i \in DOMAIN text : \E d \in DOMAIN DigitChars : DigitChars[d] = text[i]

RECURSIVE DigitsValue(_)
DigitsValue(text) ==
    IF text = << >> THEN 0
    ELSE 10 * DigitsValue(SubSeq(text, 1, Len(text) - 1))
            + (CHOOSE d \in 0..9 : DigitChars[d + 1] = text[Len(text)])

\* str::parse::<u32>: decimal digits, no sign in what the program writes.
\* The values of the model stay far below u32::MAX.
parse_u32(text) ==
    IF IsDigits(text) THEN [ok |-> TRUE, value |-> DigitsValue(text)]
    ELSE [ok |-> FALSE, value |-> 0]

\* Display for DateTime<Local>: the day, a separator, the time of day.  It
\* holds no comma and no line feed.
format_time(t) ==
    format_u32(t.day) \o <<"T">>
        \o (IF t.tod = "am" THEN <<"a", "m">> ELSE <<"p", "m">>)

\* str::parse::<DateTime<Local>>: reads back what Display writes.
parse_time(text) ==
    LET parts == Split(text, "T")
    IN  IF /\ Len(parts) = 2
           /\ IsDigits(parts[1])
           /\ parts[2] \in { <<"a", "m">>, <<"p", "m">> }
        THEN [ok |-> TRUE,
              value |-> [day |-> DigitsValue(parts[1]),
                         tod |-> IF parts[2] = <<"a", "m">>
                                 THEN "am" ELSE "pm"]]
        ELSE [ok |-> FALSE, value |-> [day |-> 0, tod |-> "am"]]

\* StreakState::serialize
StreakState_serialize ==
    [Done |-> <<"D", "o", "n", "e">>,
     Pending |-> <<"P", "e", "n", "d", "i", "n", "g">>,
     Expired |-> <<"E", "x", "p", "i", "r", "e", "d">>,
     New |-> <<"N", "e", "w">>]

\* StreakState::deserialize
StreakState_deserialize(text) ==
    IF \E st \in StreakStates : StreakState_serialize[st] = text
    THEN [ok |-> TRUE,
          value |-> CHOOSE st \in StreakStates : StreakState_serialize[st] = text]
    ELSE [ok |-> FALSE, value |-> "New"]

\* Streak::serialize
Streak_serialize(s) ==
    Join(<<format_u32(s.current_count), format_u32(s.max_count),
           format_time(s.last_hit), StreakState_serialize[s.state]>>, ",")

\* Streak::deserialize of the values after the name.
Streak_deserialize(values) ==
    IF /\ Len(values) = 4
       /\ parse_u32(values[1]).ok
       /\ parse_u32(values[2]).ok
       /\ parse_time(values[3]).ok
       /\ StreakState_deserialize(values[4]).ok
    THEN [ok |-> TRUE,
          value |-> [current_count |-> parse_u32(values[1]).value,
                     max_count |-> parse_u32(values[2]).value,
                     last_hit |-> parse_time(values[3]).value,
                     state |-> StreakState_deserialize(values[4]).value]]
    ELSE [ok |-> FALSE, value |-> Streak_new([day |-> 0, tod |-> "am"])]

\* State::serialize: one line a streak, by name.
State_serialize(m) ==
    LET keys == Sorted(DOMAIN m)
    IN  Join([i \in DOMAIN keys |->
                keys[i] \o <<",">> \o Streak_serialize(m[keys[i]])], "\n")

\* The loop of State::deserialize over the lines: the map read so far, or a
\* ParseError.
RECURSIVE deserialize_lines(_, _)
deserialize_lines(lines, m) ==
    IF lines = << >> THEN [ok |-> TRUE, streaks |-> m]
    ELSE LET values == Split(Head(lines), ",")
         IN  IF Len(values) < 2 THEN [ok |-> FALSE, streaks |-> << >>]
             ELSE IF ~Streak_deserialize(Tail(values)).ok
             THEN [ok |-> FALSE, streaks |-> << >>]
             ELSE deserialize_lines(Tail(lines),
                    Insert(m, values[1], Streak_deserialize(Tail(values)).value))

\* State::deserialize
State_deserialize(text) == deserialize_lines(Lines(text), << >>)

\* read_state: the store parsed from the state file; not ok is its panic.
read_state(file) == State_deserialize(file)

\* write_state: every state file it can leave.  An open that fails leaves the
\* file as it was; an open that succeeds truncates it, and the write then
\* leaves the whole text or, when it fails, a part of it.  Either error is
\* only printed.
write_state(file, m) ==
    LET text == State_serialize(m)
    IN  {file} \cup { SubSeq(text, 1, k) : k \in 0..Len(text) }

\* The answers a prompt can read: a line that starts with y, one that starts
\* with n (any other line is asked again), or the end of the input.
PromptInputs == {"y", "n", "eof"}

\* What a command that never reaches the prompt reads.
Unread == "unread"

\* yes_or_no on a line of input.
yes_or_no(input) == input = "y"

\* ---------------------------------------------------------------- actions

\* The record kept of an operation: its kind, the name given to a hit or a
\* rename or the names given to a remove, the streak it acted on (the streak
\* hit, or the new key of a rename), the status that streak had before a hit
\* (for a remove, whether not_found was called), and the Option<u32> a hit
\* returned.
Op(kind, arg, target, pre, ret) ==
    [kind |-> kind, arg |-> arg, target |-> target, pre |-> pre, ret |-> ret]

\* No strings under comparison.
NoProbe == << << >>, << >> >>

\* An empty state file and no batch running.
NoIo == [file |-> << >>, queue |-> << >>, done |-> << >>, status |-> "idle"]

Init ==
    /\ streaks = << >>
    /\ now \in Mornings
    /\ last = Op("init", << >>, << >>, "NA", None)
    /\ hitsToday = [n \in Names |-> 0]
    /\ probe = NoProbe
    /\ io = NoIo

\* The wall clock changes, forward or backward.
Tick(t) ==
    /\ t # now
    /\ now' = t
    /\ last' = Op("tick", << >>, << >>, "NA", None)
    /\ hitsToday' = IF num_days_from_ce(t) = num_days_from_ce(now)
                    THEN hitsToday ELSE [n \in Names |-> 0]
    /\ UNCHANGED <<streaks, probe, io>>

\* run_command "update"
Update ==
    /\ streaks' = update(streaks, now)
    /\ last' = Op("update", << >>, << >>, "NA", None)
    /\ UNCHANGED <<now, hitsToday, probe, io>>

\* run_command "add"
Add(names) ==
    /\ streaks' = add_streaks(streaks, names, now)
    /\ last' = Op("add", << >>, << >>, "NA", None)
    /\ hitsToday' = [n \in Names |->
                        IF \E i \in DOMAIN names : names[i] = n
                        THEN 0 ELSE hitsToday[n]]
    /\ UNCHANGED <<now, probe, io>>

\* run_command "remove"
Remove(names) ==
    /\ streaks' = remove_streaks(streaks, names)
    /\ last' = Op("remove", names, << >>,
                  IF remove_misses(streaks, names) # << >>
                  THEN "NotFound" ELSE "NA", None)
    /\ hitsToday' = [n \in Names |->
                        IF \E i \in DOMAIN names : names[i] = n
                        THEN 0 ELSE hitsToday[n]]
    /\ UNCHANGED <<now, probe, io>>

\* run_command "rename"
Rename(name, new_name) ==
    /\ streaks' = rename_streak(streaks, name, new_name)
    /\ last' = Op("rename", name, new_name, "NA", None)
    /\ hitsToday' = IF name \in DOMAIN streaks
                    THEN [n \in Names |->
                            IF n = new_name THEN hitsToday[name]
                            ELSE IF n = name THEN 0 ELSE hitsToday[n]]
                    ELSE hitsToday
    /\ UNCHANGED <<now, probe, io>>

\* run_command "hit", one name of the argument list.  The guard keeps
\* current_count within the model's bound.
Hit(name, answer) ==
    \E o \in hit_streak(streaks, name, answer, now) :
        /\ o.streaks[o.target].current_count <= MaxCount
        /\ streaks' = o.streaks
        /\ last' = Op("hit", name, o.target, o.pre, o.ret)
        /\ hitsToday' = IF o.ret = None THEN hitsToday
                        ELSE [hitsToday EXCEPT ![o.target] = @ + 1]
        /\ UNCHANGED <<now, probe, io>>

\* Every operation on every name, the clock read once a day.
Next ==
    \/ \E t \in Mornings : Tick(t)
    \/ Update
    \/ \E names \in ArgLists(Names) : Add(names)
    \/ \E names \in ArgLists(Names) : Remove(names)
    \/ \E name \in Names, new_name \in Names : Rename(name, new_name)
    \/ \E name \in Names, answer \in BOOLEAN : Hit(name, answer)

Spec == Init /\ [][Next]_vars

\* One habit, tracked under the name OneName, with the clock read at any time
\* of day.
InitOne ==
    /\ streaks = << >>
    /\ now \in Time
    /\ last = Op("init", << >>, << >>, "NA", None)
    /\ hitsToday = [n \in Names |-> 0]
    /\ probe = NoProbe
    /\ io = NoIo

NextOne ==
    \/ \E t \in Time : Tick(t)
    \/ Update
    \/ \E names \in ArgLists({OneName}) : Add(names)
    \/ \E names \in ArgLists({OneName}) : Remove(names)
    \/ \E answer \in BOOLEAN : Hit(OneName, answer)

SpecOne == InitOne /\ [][NextOne]_vars

\* -------------------------------------------- commands over the state file

\* A command starts when no batch is running.
NoCommand == io.status \in {"idle", "panicked"}

\* The process panics: nothing is written, and the arguments left are dropped.
Panic ==
    /\ io' = [io EXCEPT !.queue = << >>, !.status = "panicked"]
    /\ last' = Op("panic", << >>, << >>, "NA", None)
    /\ UNCHANGED streaks

\* run_command "add": one modify_state.
AddCycle(names) ==
    /\ NoCommand
    /\ LET load == read_state(io.file)
           added == add_streaks(load.streaks, names, now)
       IN  IF ~load.ok THEN Panic
           ELSE \E file \in write_state(io.file, added) :
                /\ streaks' = added
                /\ io' = [file |-> file, queue |-> << >>, done |-> << >>,
                          status |-> "idle"]
                /\ last' = Op("add", << >>, << >>, "NA", None)
    /\ UNCHANGED <<now, hitsToday, probe>>

\* run_command "hit" with its arguments: the loop is entered.
StartHit(args) ==
    /\ NoCommand
    /\ io' = [io EXCEPT !.queue = args, !.done = << >>, !.status = "hitting"]
    /\ last' = Op("batch", args, << >>, "NA", None)
    /\ UNCHANGED <<streaks, now, hitsToday, probe>>

\* hit_streak asks yes_or_no: the name is not a key and a key is close to it.
Asks(m, name) == name \notin DOMAIN m /\ close_keys(m, name) # {}

\* One pass of the loop of run_command "hit": modify_state with hit_streak
\* on the next argument.  done records the name, the streak hit and its value
\* in the store handed to write_state, and whether the file held that store
\* when the pass ended.
HitCycle(input) ==
    /\ io.status = "hitting"
    /\ LET name == Head(io.queue)
           load == read_state(io.file)
       IN  IF ~load.ok THEN input = Unread /\ Panic
           ELSE /\ (input = Unread) = ~Asks(load.streaks, name)
                /\ IF input = "eof" THEN Panic
                   ELSE \E o \in hit_streak(load.streaks, name,
                                             yes_or_no(input), now) :
                        \E file \in write_state(io.file, o.streaks) :
                            /\ streaks' = o.streaks
                            /\ io' = [file |-> file,
                                      queue |-> Tail(io.queue),
                                      done |-> Append(io.done,
                                          [name |-> name, target |-> o.target,
                                           streak |-> o.streaks[o.target],
                                           written |->
                                              file = State_serialize(o.streaks)]),
                                      status |-> IF Tail(io.queue) = << >>
                                                 THEN "idle" ELSE "hitting"]
                            /\ last' = Op("hit", name, o.target, o.pre, o.ret)
    /\ UNCHANGED <<now, hitsToday, probe>>

InitFile ==
    /\ streaks = << >>
    /\ now = [day |-> 0, tod |-> "am"]
    /\ last = Op("init", << >>, << >>, "NA", None)
    /\ hitsToday = [n \in Names |-> 0]
    /\ probe = NoProbe
    /\ io = NoIo

\* The commands over the state file: add of one name, hit of up to MaxArgs
\* names.
NextFile ==
    \/ \E name \in FileNames : AddCycle(<<name>>)
    \/ \E args \in ArgLists(FileNames) : StartHit(args)
    \/ \E input \in PromptInputs \cup {Unread} : HitCycle(input)

SpecFile == InitFile /\ [][NextFile]_vars

\* ---------------------------------------------------- lev and close_match

LevAlphabet == {"a", "b"}

\* The strings over S of length at most k.
Strings(S, k) == UNION { [1..n -> S] : n \in 0..k }

\* The pairs compared: every two strings over LevAlphabet up to MaxLen, the
\* two pairs of the documentation, and a pair of 8 letters 4 edits apart.
LevPairs ==
    (Strings(LevAlphabet, MaxLen) \X Strings(LevAlphabet, MaxLen))
    \cup { << <<"w", "o", "r", "k", "o", "u", "t">>,
              <<"w", "o", "r", "k", "u", "o", "t">> >>,
           << <<"a", "b">>, <<"x", "y">> >>,
           << <<"a", "a", "a", "a", "a", "a", "a", "a">>,
              <<"a", "a", "a", "a", "b", "b", "b", "b">> >> }

InitLev ==
    /\ streaks = << >>
    /\ now = [day |-> 0, tod |-> "am"]
    /\ last = Op("init", << >>, << >>, "NA", None)
    /\ hitsToday = [n \in Names |-> 0]
    /\ probe \in LevPairs
    /\ io = NoIo

\* close_match(probe[1], probe[2]) is evaluated: the answer and the distance
\* lev returned are recorded.
Compare ==
    /\ last.kind = "init"
    /\ last' = Op("close_match", probe[1], probe[2],
                  IF close_match(probe[1], probe[2]) THEN "Close" ELSE "Far",
                  Some(lev(probe[1], probe[2])))
    /\ UNCHANGED <<streaks, now, hitsToday, probe, io>>

NextLev == Compare

SpecLev == InitLev /\ [][NextLev]_vars

\* ----------------------------------------------------------------- claims

\* dayNumber(now) - dayNumber(lastHit) of the streak stored under n.
DaysSince(n) == num_days_from_ce(now) - num_days_from_ce(streaks[n].last_hit)

\* Every outcome a hit can have in the current state, for every name and
\* every answer to the prompt.
HitOutcomes ==
    UNION { hit_streak(streaks, name, answer, now) :
                name \in Names, answer \in BOOLEAN }

\* The streaks a state file can hold at the model's bounds.
LoadableStreaks ==
    { s \in [current_count : 0..MaxCount, max_count : 0..MaxCount,
             last_hit : Mornings, state : StreakStates] :
        s.current_count <= s.max_count }

\* C1: in every reachable state every streak of the store has
\* current_count <= max_count.
C1_CountLeqMax ==
    \A n \in DOMAIN streaks : streaks[n].current_count <= streaks[n].max_count

\* C1 witness: after an expiry and a fresh hit a streak stands at 1 below its
\* high-water mark 2.
C1_Witness ==
    /\ last.kind = "hit"
    /\ last.pre = "Expired"
    /\ streaks[last.target].current_count = 1
    /\ streaks[last.target].max_count = 2

\* C2: a hit that lands on a stored streak whose status is Done leaves the
\* whole store as it was and returns None, whatever the clock reads.
C2_HitDoneNoOp ==
    \A o \in HitOutcomes :
        (o.target \in DOMAIN streaks /\ streaks[o.target].state = "Done")
            => (o.streaks = streaks /\ o.ret = None)

\* C2 witness: a Done streak was hit two days after its last hit and the hit
\* returned None.
C2_Witness ==
    /\ last.kind = "hit"
    /\ last.pre = "Done"
    /\ last.ret = None
    /\ streaks[last.target].state = "Done"
    /\ DaysSince(last.target) > 1

\* C3: a hit that lands on a Pending streak makes it Done, adds exactly 1 to
\* current_count, sets max_count to the larger of the old max_count and the
\* new count, sets last_hit to now and returns the new count.
C3_HitPending ==
    \A o \in HitOutcomes :
        (o.target \in DOMAIN streaks /\ streaks[o.target].state = "Pending")
            => LET old == streaks[o.target]
               IN  /\ o.streaks[o.target] =
                        [current_count |-> old.current_count + 1,
                         max_count |-> Max(old.max_count, old.current_count + 1),
                         last_hit |-> now,
                         state |-> "Done"]
                   /\ o.ret = Some(old.current_count + 1)

\* C3 witness: a Pending streak with count 1 was hit and now stands at 2.
C3_Witness ==
    /\ last.kind = "hit"
    /\ last.pre = "Pending"
    /\ last.ret = Some(2)
    /\ streaks[last.target].current_count = 2
    /\ streaks[last.target].state = "Done"

\* C4: a hit that lands on a New or Expired streak makes it Done with
\* current_count 1, max_count the larger of the old max_count and 1, last_hit
\* now, and returns 1; Streak::hit does so for every prior count a state file
\* can hold.
C4_HitNewOrExpired ==
    /\ \A o \in HitOutcomes :
        (o.target \in DOMAIN streaks
            /\ streaks[o.target].state \in {"New", "Expired"})
            => /\ o.streaks[o.target] =
                    [current_count |-> 1,
                     max_count |-> Max(streaks[o.target].max_count, 1),
                     last_hit |-> now,
                     state |-> "Done"]
               /\ o.ret = Some(1)
    /\ \A s \in LoadableStreaks :
        s.state \in {"New", "Expired"}
            => /\ hit(s, now).streak =
                    [current_count |-> 1, max_count |-> Max(s.max_count, 1),
                     last_hit |-> now, state |-> "Done"]
               /\ hit(s, now).ret = Some(1)

\* C4 witness: the scenario add then hit: a New streak was hit and stands at
\* count 1, max 1, Done.
C4_Witness ==
    /\ last.kind = "hit"
    /\ last.pre = "New"
    /\ last.ret = Some(1)
    /\ streaks[last.target] =
        [current_count |-> 1, max_count |-> 1, last_hit |-> now,
         state |-> "Done"]

\* C5: update with more than one calendar day since last_hit makes the
\* streak Expired with current_count 0 and leaves max_count and last_hit.
C5_UpdateExpires ==
    \A n \in DOMAIN streaks :
        DaysSince(n) > 1
            => update(streaks, now)[n] =
                [streaks[n] EXCEPT !.state = "Expired", !.current_count = 0]

\* C5 witness: update has run and a streak two days stale is Expired at
\* count 0 with its max_count of 2 kept.
C5_Witness ==
    /\ last.kind = "update"
    /\ \E n \in DOMAIN streaks :
        /\ DaysSince(n) > 1
        /\ streaks[n].state = "Expired"
        /\ streaks[n].current_count = 0
        /\ streaks[n].max_count = 2

\* C6: update with exactly one calendar day since last_hit makes the streak
\* Pending and leaves current_count, max_count and last_hit.
C6_UpdatePending ==
    \A n \in DOMAIN streaks :
        DaysSince(n) = 1
            => update(streaks, now)[n] = [streaks[n] EXCEPT !.state = "Pending"]

\* C6 witness: update has run and a streak hit yesterday is Pending with its
\* count of 2 kept.
C6_Witness ==
    /\ last.kind = "update"
    /\ \E n \in DOMAIN streaks :
        /\ DaysSince(n) = 1
        /\ streaks[n].state = "Pending"
        /\ streaks[n].current_count = 2

\* C7: update on the calendar day of last_hit leaves the streak as it was.
C7_UpdateSameDay ==
    \A n \in DOMAIN streaks :
        DaysSince(n) = 0 => update(streaks, now)[n] = streaks[n]

\* C7 witness: update has run over a streak hit today, still Done at count 2,
\* next to a streak it did change.
C7_Witness ==
    /\ last.kind = "update"
    /\ \E n \in DOMAIN streaks :
        /\ DaysSince(n) = 0
        /\ streaks[n].state = "Done"
        /\ streaks[n].current_count = 2
    /\ \E n \in DOMAIN streaks :
        /\ DaysSince(n) > 1
        /\ streaks[n].state = "Expired"

\* C8: while the clock's calendar day stays the same, at most one hit of a
\* streak succeeds among any hits and updates, and every later hit returns
\* None and leaves the store as it was.
C8_OneHitADay ==
    /\ \A n \in Names : hitsToday[n] <= 1
    /\ \A answer \in BOOLEAN :
        \A o \in hit_streak(streaks, OneName, answer, now) :
            hitsToday[o.target] >= 1 => (o.ret = None /\ o.streaks = streaks)

\* C8 witness: a streak hit in the morning was hit again later the same day
\* and that hit returned None.
C8_Witness ==
    /\ last.kind = "hit"
    /\ last.ret = None
    /\ hitsToday[last.target] = 1
    /\ DaysSince(last.target) = 0
    /\ now # streaks[last.target].last_hit

\* C9 as amended: hit and update never lower the max_count stored under a
\* name, and rename carries the moved streak's max_count to the new key and
\* leaves every other streak alone.
C9_MaxCountKept ==
    [][/\ last'.kind \in {"hit", "update"}
            => \A n \in (DOMAIN streaks) \cap (DOMAIN streaks') :
                    streaks'[n].max_count >= streaks[n].max_count
       /\ (last'.kind = "rename" /\ last'.arg \in DOMAIN streaks)
            => /\ streaks'[last'.target].max_count
                    = streaks[last'.arg].max_count
               /\ \A n \in (DOMAIN streaks') \ {last'.target} :
                    n \in DOMAIN streaks /\ streaks'[n] = streaks[n]
      ]_vars

\* C9 witness: update has reset a streak's count to 0 and its max_count is
\* still 2.
C9_Witness ==
    /\ last.kind = "update"
    /\ \E n \in DOMAIN streaks :
        /\ streaks[n].state = "Expired"
        /\ streaks[n].current_count = 0
        /\ streaks[n].max_count = 2
        /\ DaysSince(n) = 2

\* C9 as claimed: no hit, update, add or rename lowers the max_count stored
\* under a name that stays in the store.
C9_MaxCountNeverLower ==
    [][last'.kind \in {"hit", "update", "add", "rename"}
            => \A n \in (DOMAIN streaks) \cap (DOMAIN streaks') :
                    streaks'[n].max_count >= streaks[n].max_count
      ]_vars

\* C10 as amended: last_hit is set to now by a hit that returns a count, is
\* left alone by update and by a hit that returns None, and is carried to the
\* new key by rename; it moves to an earlier value only by a hit made while
\* the clock reads earlier than the stored last_hit.
C10_LastHitSetOnHit ==
    [][/\ last'.kind = "update"
            => \A n \in DOMAIN streaks :
                    streaks'[n].last_hit = streaks[n].last_hit
       /\ last'.kind = "hit"
            => /\ \A n \in DOMAIN streaks :
                    (n # last'.target \/ last'.ret = None)
                        => streaks'[n].last_hit = streaks[n].last_hit
               /\ last'.ret # None => streaks'[last'.target].last_hit = now
       /\ (last'.kind = "rename" /\ last'.arg \in DOMAIN streaks)
            => /\ streaks'[last'.target].last_hit = streaks[last'.arg].last_hit
               /\ \A n \in (DOMAIN streaks') \ {last'.target} :
                    n \in DOMAIN streaks
                        /\ streaks'[n].last_hit = streaks[n].last_hit
       /\ last'.kind \in {"hit", "update"}
            => \A n \in DOMAIN streaks :
                    Earlier(streaks'[n].last_hit, streaks[n].last_hit)
                        => (/\ last'.kind = "hit"
                            /\ last'.target = n
                            /\ Earlier(now, streaks[n].last_hit))
      ]_vars

\* C10 witness: a Pending streak was hit and its last_hit moved forward to
\* now while the other streak kept an older last_hit.
C10_Witness ==
    /\ last.kind = "hit"
    /\ last.pre = "Pending"
    /\ last.ret # None
    /\ streaks[last.target].last_hit = now
    /\ \E n \in DOMAIN streaks :
        n # last.target /\ Earlier(streaks[n].last_hit, now)

\* C10 as claimed: no hit and no update moves a streak's last_hit to an
\* earlier value.
C10_LastHitNeverEarlier ==
    [][last'.kind \in {"hit", "update"}
            => \A n \in DOMAIN streaks :
                    ~Earlier(streaks'[n].last_hit, streaks[n].last_hit)
      ]_vars

\* C11: for every store the operations can produce, names with a comma
\* included, deserialize(serialize(store)) succeeds and yields the same
\* names with the same counts, status and last hit.  Stated of the store each
\* command hands to write_state.
C11_RoundTrip ==
    State_deserialize(State_serialize(streaks)) =
        [ok |-> TRUE, streaks |-> streaks]

\* C12: a hit on a name that is no key.  With no close key, or with the
\* prompt answered no, the streak is created under that name and hit at once
\* (counts 1 and 1, Done, 1 returned) and every other streak is as it was;
\* with a close key and the prompt answered yes, one close key alone is hit
\* and no entry of that name appears.
C12_HitMissing ==
    /\ \A name \in Names \ DOMAIN streaks, answer \in BOOLEAN :
         \A o \in hit_streak(streaks, name, answer, now) :
            IF close_keys(streaks, name) = {} \/ ~answer
            THEN /\ o.streaks = Insert(streaks, name,
                        [current_count |-> 1, max_count |-> 1,
                         last_hit |-> now, state |-> "Done"])
                 /\ o.target = name
                 /\ o.ret = Some(1)
            ELSE /\ o.target \in close_keys(streaks, name)
                 /\ DOMAIN o.streaks = DOMAIN streaks
                 /\ \A n \in DOMAIN streaks \ {o.target} :
                        o.streaks[n] = streaks[n]
                 /\ o.streaks[o.target] = hit(streaks[o.target], now).streak
                 /\ o.ret = hit(streaks[o.target], now).ret
    /\ (last.kind = "hit" /\ last.pre = "Absent") =>
            /\ last.target = last.arg
            /\ streaks[last.arg] = [current_count |-> 1, max_count |-> 1,
                                    last_hit |-> now, state |-> "Done"]
            /\ last.ret = Some(1)
    /\ (last.kind = "hit" /\ last.target # last.arg) =>
            /\ last.arg \notin DOMAIN streaks
            /\ close_match(last.target, last.arg)

\* A streak was created by a hit although another key is close to its name:
\* the prompt was answered no.
C12_Witness ==
    /\ last.kind = "hit"
    /\ last.pre = "Absent"
    /\ close_keys(streaks, last.arg) \ {last.arg} # {}

\* The classic edit distance (Wagner-Fischer recurrence) between the first i
\* characters of a and the first j characters of b: unit-cost insertions,
\* deletions and substitutions.
RECURSIVE EditDistance(_, _, _, _)
EditDistance(a, b, i, j) ==
    IF i = 0 THEN j
    ELSE IF j = 0 THEN i
    ELSE Min(Min(EditDistance(a, b, i - 1, j) + 1,
                 EditDistance(a, b, i, j - 1) + 1),
             EditDistance(a, b, i - 1, j - 1)
                + (IF a[i] = b[j] THEN 0 ELSE 1))

\* C13: lev is the classic edit distance, close_match(a, b) holds exactly
\* when that distance is at most min(min(len(a), len(b)) / 2, 3), "workout"
\* and "workuot" are a close match and "ab" and "xy" are not.
C13_CloseMatch ==
    LET a == probe[1]
        b == probe[2]
        d == EditDistance(a, b, Len(a), Len(b))
    IN  /\ lev(a, b) = d
        /\ close_match(a, b) <=> (d <= Min(Min(Len(a), Len(b)) \div 2, 3))
        /\ probe = << <<"w", "o", "r", "k", "o", "u", "t">>,
                      <<"w", "o", "r", "k", "u", "o", "t">> >>
            => close_match(a, b)
        /\ probe = << <<"a", "b">>, <<"x", "y">> >> => ~close_match(a, b)

\* C13 witness: "workout" and "workuot" were compared: distance 2, a close
\* match.
C13_Witness ==
    /\ last.kind = "close_match"
    /\ last.arg = <<"w", "o", "r", "k", "o", "u", "t">>
    /\ last.target = <<"w", "o", "r", "k", "u", "o", "t">>
    /\ last.ret = Some(2)
    /\ last.pre = "Close"

\* The names of an argument list, as a set.
Range(names) == { names[i] : i \in DOMAIN names }

\* C14: rename(old, new) with old in the store leaves the streak of old,
\* unchanged, under new, removes the key old (when the two names differ),
\* replaces whatever new held and leaves every other streak alone; with old
\* not in the store it leaves the store as it was.
C14_Rename ==
    \A old \in Names, new \in Names :
        LET r == rename_streak(streaks, old, new)
        IN  IF old \in DOMAIN streaks
            THEN /\ DOMAIN r = ((DOMAIN streaks) \ {old}) \cup {new}
                 /\ r[new] = streaks[old]
                 /\ \A n \in (DOMAIN r) \ {new} : r[n] = streaks[n]
            ELSE r = streaks

\* C14 witness: a streak with count 2 was renamed: it now stands under the
\* new name alone.
C14_Witness ==
    /\ last.kind = "rename"
    /\ last.arg # last.target
    /\ DOMAIN streaks = {last.target}
    /\ streaks[last.target].current_count = 2

\* C15: remove deletes exactly the streaks whose names are among the names
\* given: a name not in the store removes nothing, close match or not, and
\* the names after it are still removed.
C15_RemoveExact ==
    \A names \in ArgLists(Names) :
        remove_streaks(streaks, names) =
            [n \in (DOMAIN streaks) \ Range(names) |-> streaks[n]]

\* C15 witness: a remove of "ac" alone called not_found, and its close match
\* "ab" is still in the store.
C15_Witness ==
    /\ last.kind = "remove"
    /\ last.arg = << <<"a", "c">> >>
    /\ last.pre = "NotFound"
    /\ DOMAIN streaks = { <<"a", "b">> }

\* C16: update with now on an earlier calendar day than last_hit makes the
\* streak Pending with current_count 0, leaves max_count and last_hit, and
\* keeps every streak in the store.
C16_UpdateNegative ==
    /\ DOMAIN update(streaks, now) = DOMAIN streaks
    /\ \A n \in DOMAIN streaks :
        DaysSince(n) < 0
            => update(streaks, now)[n] =
                [streaks[n] EXCEPT !.state = "Pending", !.current_count = 0]

\* C16 witness: update has run with the clock a day before one streak's
\* last_hit, which is Pending at count 0 with max_count 2, and two days after
\* the other's, which is Expired.
C16_Witness ==
    /\ last.kind = "update"
    /\ \E n \in DOMAIN streaks :
        /\ DaysSince(n) < 0
        /\ streaks[n].state = "Pending"
        /\ streaks[n].current_count = 0
        /\ streaks[n].max_count = 2
    /\ \E n \in DOMAIN streaks :
        /\ DaysSince(n) > 0
        /\ streaks[n].state \in {"Pending", "Expired"}

\* C17: an update at any clock value followed by an update at any clock
\* value of the same calendar day leaves the store as the first update did.
C17_UpdateIdempotent ==
    \A t1 \in Time, t2 \in Time :
        num_days_from_ce(t1) = num_days_from_ce(t2)
            => update(update(streaks, t1), t2) = update(streaks, t1)

\* C17 witness: update has run in the afternoon on a streak hit the morning
\* two days before, which it expired from a max_count of 2.
C17_Witness ==
    /\ last.kind = "update"
    /\ now.tod = "pm"
    /\ \E n \in DOMAIN streaks :
        /\ DaysSince(n) = 2
        /\ streaks[n].last_hit.tod = "am"
        /\ streaks[n].state = "Expired"
        /\ streaks[n].max_count = 2

\* C18: when several keys are close to the name of a hit, the key offered
\* is the first close key in name order.  After a hit that took a close key
\* the keys are those the find ran over.
C18_FirstInNameOrder ==
    (last.kind = "hit" /\ last.target # last.arg) =>
        last.target = Sorted(close_keys(streaks, last.arg))[1]

\* C19: in a batch hit, the hit of each name whose write completed stays in
\* the state file whatever happens while the later names are processed: the
\* file keeps a line with the streak as that pass wrote it.
C19_BatchDurable ==
    \A i \in DOMAIN io.done :
        io.done[i].written =>
            \E j \in DOMAIN Lines(io.file) :
                Lines(io.file)[j] =
                    io.done[i].target \o <<",">>
                        \o Streak_serialize(io.done[i].streak)

\* C20: in the state an update leaves, every Done streak has last_hit on the
\* calendar day of now.
C20_DoneMeansToday ==
    last.kind = "update"
        => \A n \in DOMAIN streaks :
                streaks[n].state = "Done" => DaysSince(n) = 0

\* C20 witness: update has run over a streak hit today, still Done, and a
\* streak hit yesterday, now Pending.
C20_Witness ==
    /\ last.kind = "update"
    /\ \E n \in DOMAIN streaks :
        streaks[n].state = "Done" /\ streaks[n].last_hit = now
    /\ \E n \in DOMAIN streaks :
        /\ streaks[n].state = "Pending"
        /\ DaysSince(n) = 1
        /\ streaks[n].current_count = 1

====
